---- MODULE Spec2Model ----
(***************************************************************************)
(* A model of phc_symbolize.py: the symbol file parser (load_symbols), the *)
(* two line lookups (retrieve_file_line_data_linear / _binsearch), the     *)
(* per-frame pipeline of print_stack and the on-disk cache of              *)
(* fetch_remote_symbols.                                                   *)
(*                                                                         *)
(* A text line is the sequence of its space-separated tokens, i.e. what    *)
(* line.split(" ") gives once the trailing newline is dropped.  The empty  *)
(* line is <<"">>, and a line ending in a space ends in the token "".      *)
(***************************************************************************)
EXTENDS Integers, Sequences, FiniteSets, TLC

VARIABLES
    files,              \* symbol file path -> its text (a sequence of lines)
    symbols,            \* module name -> list of [start, size, name, symfile]
    filemap,            \* symbol file -> (file id -> path)
    line_symbols_cache, \* symbol file -> list of cached (rstripped) lines
    pc,                 \* position of the run
    reladdr,            \* the relative address of a line lookup
    cmin, cmax, cidx,   \* the locals of retrieve_file_line_data_binsearch
    bret,               \* what retrieve_file_line_data_binsearch returned
    lret,               \* what retrieve_file_line_data_linear returned
    module_memory_map,  \* list of [name, base, end], in dict order
    stack_len,          \* len(phc_stack)
    stack_cnt,          \* the frame counter of print_stack
    nums,               \* the frame numbers printed so far, in order
    frame,              \* the lines printed for the latest frame, and why
    disk,               \* the cache directory: its subdirectories and files
    http,               \* the URLs requested with requests.get, in order
    stderr              \* what fetch_remote_symbols wrote to sys.stderr

vars == <<files, symbols, filemap, line_symbols_cache, pc, reladdr, cmin, cmax,
          cidx, bret, lret, module_memory_map, stack_len, stack_cnt, nums,
          frame, disk, http, stderr>>

----------------------------------------------------------------------------
(* Bounds of the model *)

MaxLines == 3
MaxStart == 3

----------------------------------------------------------------------------
(* Strings, tokens and the conversions the code applies to them *)

HexDigits == <<"0", "1", "2", "3", "4", "5", "6", "7", "8", "9",
               "a", "b", "c", "d", "e", "f">>

\* the one-digit spelling of n, 0 <= n < 16
Digit(n) == HexDigits[n + 1]

\* int(t, 16) raises ValueError exactly when IsHex(t) is false
IsHex(t) == \E i \in 1..Len(HexDigits) : HexDigits[i] = t

HexVal(t) == (CHOOSE i \in 1..Len(HexDigits) : HexDigits[i] = t) - 1

RECURSIVE Join(_)
\* " ".join(toks)
Join(toks) ==
    IF Len(toks) = 0 THEN ""
    ELSE IF Len(toks) = 1 THEN toks[1]
    ELSE toks[1] \o " " \o Join(Tail(toks))

RECURSIVE RStrip(_)
\* str.rstrip() on a line of tokens: trailing empty tokens (and the spaces
\* before them) go; the empty string splits to <<"">>
RStrip(line) ==
    IF Len(line) <= 1 THEN line
    ELSE IF line[Len(line)] = "" THEN RStrip(SubSeq(line, 1, Len(line) - 1))
    ELSE line

\* len(line.split(" ", maxsplit))
NFields(line, maxsplit) ==
    IF Len(line) <= maxsplit + 1 THEN Len(line) ELSE maxsplit + 1

\* line.split(" ", maxsplit)[i], i counted from 0 as in the code
Field(line, maxsplit, i) ==
    IF i < maxsplit THEN line[i + 1]
    ELSE Join(SubSeq(line, maxsplit + 1, Len(line)))

\* line.split(" ", maxsplit)[i].rstrip()
FieldRStrip(line, maxsplit, i) ==
    IF i < maxsplit THEN line[i + 1]
    ELSE Join(RStrip(SubSeq(line, maxsplit + 1, Len(line))))

\* line.startswith(kw + " ") for a line that went through rstrip()
StartsWith(line, kw) == Len(line) >= 2 /\ line[1] = kw

\* int(x / 2) of the code: true division, then truncation towards zero
HalfTrunc(x) == IF x >= 0 THEN x \div 2 ELSE -((-x) \div 2)

----------------------------------------------------------------------------
(* Return values *)

PyNone == [kind |-> "None", line |-> "", file_id |-> ""]
Found(l, f) == [kind |-> "ok", line |-> l, file_id |-> f]
Raised(e) == [kind |-> e, line |-> "", file_id |-> ""]
Unset == [kind |-> "unset", line |-> "", file_id |-> ""]

----------------------------------------------------------------------------
(* load_symbols *)

\* d[k] = v on a dict modelled as a function
Put(d, k, v) == [x \in DOMAIN d \cup {k} |-> IF x = k THEN v ELSE d[x]]

\* the global dicts (symbols, filemap, line_symbols_cache) and the exception
\* that ended the call, if any
Store(sy, fm, lc, e) ==
    [symbols |-> sy, filemap |-> fm, line_symbols_cache |-> lc, err |-> e]

\* a File Table shared by the symbol files instead of one per symbol file
LoadFileShared(st, symfile, line) ==
    LET key == [dir |-> "x", stem |-> symfile.stem]
        fm == IF key \in DOMAIN st.filemap THEN st.filemap
              ELSE Put(st.filemap, key, << >>)
    IN  IF NFields(line, 2) < 3
        THEN [st EXCEPT !.filemap = fm, !.err = "IndexError"]
        ELSE [st EXCEPT !.filemap =
                 Put(fm, key,
                     Put(fm[key], Field(line, 2, 1), Field(line, 2, 2)))]

\* the FILE branch: tmp = line.split(" ", maxsplit=2)
LoadFile(st, symfile, line) ==
    LET fm == IF symfile \in DOMAIN st.filemap THEN st.filemap
              ELSE Put(st.filemap, symfile, << >>)
    IN  IF NFields(line, 2) < 3
        THEN [st EXCEPT !.filemap = fm, !.err = "IndexError"]
        ELSE [st EXCEPT !.filemap =
                 Put(fm, symfile,
                     Put(fm[symfile], Field(line, 2, 1), Field(line, 2, 2)))]

\* the FUNC branch: tmp = line.split(" ", maxsplit=4); the list display
\* evaluates int(tmp[1], 16), int(tmp[2], 16), tmp[4] in that order
LoadFunc(st, module, symfile, line) ==
    IF ~IsHex(Field(line, 4, 1)) THEN [st EXCEPT !.err = "ValueError"]
    ELSE IF NFields(line, 4) < 3 THEN [st EXCEPT !.err = "IndexError"]
    ELSE IF ~IsHex(Field(line, 4, 2)) THEN [st EXCEPT !.err = "ValueError"]
    ELSE IF NFields(line, 4) < 5 THEN [st EXCEPT !.err = "IndexError"]
    ELSE [st EXCEPT !.symbols[module] =
             Append(@, [start |-> HexVal(Field(line, 4, 1)),
                        size |-> HexVal(Field(line, 4, 2)),
                        name |-> Field(line, 4, 4),
                        symfile |-> symfile])]

\* the body of "for line in symfile_fd"
LoadLine(st, module, symfile, raw) ==
    LET line == RStrip(raw)
    IN  IF StartsWith(line, "MODULE") THEN st
        ELSE IF StartsWith(line, "FILE") THEN LoadFile(st, symfile, line)
        ELSE IF StartsWith(line, "PUBLIC") THEN st
        ELSE IF StartsWith(line, "STACK") THEN st
        ELSE IF StartsWith(line, "INFO") THEN st
        ELSE IF StartsWith(line, "FUNC") THEN LoadFunc(st, module, symfile, line)
        ELSE [st EXCEPT !.line_symbols_cache[symfile] = Append(@, line)]

RECURSIVE LoadLines(_, _, _, _, _)
\* the loop over the lines of the file, left at the first exception
LoadLines(st, module, symfile, text, i) ==
    IF i > Len(text) \/ st.err # "" THEN st
    ELSE LoadLines(LoadLine(st, module, symfile, text[i]), module, symfile,
                   text, i + 1)

load_symbols(st, module, symfile, text) ==
    LET sy == IF module \in DOMAIN st.symbols THEN st.symbols
              ELSE Put(st.symbols, module, << >>)
        lc == IF symfile \in DOMAIN st.line_symbols_cache
              THEN st.line_symbols_cache
              ELSE Put(st.line_symbols_cache, symfile, << >>)
    IN  LoadLines(Store(sy, st.filemap, lc, ""), module, symfile, text, 1)

----------------------------------------------------------------------------
(* retrieve_file_line_data_linear *)

\* the try block on one line of the file: the value returned, the exception
\* that leaves the function, or "next" to go on with the following line
LinearTry(raw, addr) ==
    IF ~IsHex(Field(raw, 3, 0)) THEN "next"
    ELSE IF ~(HexVal(Field(raw, 3, 0)) <= addr) THEN "next"
    ELSE IF NFields(raw, 3) < 2 THEN "IndexError"
    ELSE IF ~IsHex(Field(raw, 3, 1)) THEN "next"
    ELSE IF ~(HexVal(Field(raw, 3, 0)) + HexVal(Field(raw, 3, 1)) > addr)
         THEN "next"
    ELSE IF NFields(raw, 3) < 4 THEN "IndexError"
    ELSE "return"

RECURSIVE LinearFrom(_, _, _)
LinearFrom(text, i, addr) ==
    IF i > Len(text) THEN PyNone
    ELSE LET t == LinearTry(text[i], addr)
         IN  IF t = "return"
             THEN Found(Field(text[i], 3, 2), FieldRStrip(text[i], 3, 3))
             ELSE IF t = "IndexError" THEN Raised("IndexError")
             ELSE LinearFrom(text, i + 1, addr)

\* the file is opened again and read from its first line
retrieve_file_line_data_linear(disk_files, symbol_entry, addr) ==
    LinearFrom(disk_files[symbol_entry.symfile], 1, addr)

----------------------------------------------------------------------------
(* retrieve_file_line_data_binsearch *)

Locals(lo, hi, idx, r) == [cmin |-> lo, cmax |-> hi, cidx |-> idx, ret |-> r]

\* lines 108-110
BinsearchEntry(lines) ==
    Locals(0, Len(lines) - 1, HalfTrunc(Len(lines)), Unset)

\* a loop that stops one element early
BinsearchGuardStrict(s) == (s.cmax - s.cmin) > 0 /\ s.cidx <= s.cmax

\* the condition of the while loop
BinsearchGuard(s) == (s.cmax - s.cmin) >= 0 /\ s.cidx <= s.cmax

\* one pass through the body of the while loop
BinsearchBody(lines, addr, s) ==
    LET line == lines[s.cidx + 1]
    IN  IF ~IsHex(Field(line, 3, 0)) THEN [s EXCEPT !.cidx = s.cidx + 1]
        ELSE IF HexVal(Field(line, 3, 0)) <= addr
        THEN IF NFields(line, 3) < 2
             THEN [s EXCEPT !.ret = Raised("IndexError")]
             ELSE IF ~IsHex(Field(line, 3, 1))
             THEN [s EXCEPT !.cidx = s.cidx + 1]
             ELSE IF HexVal(Field(line, 3, 0)) + HexVal(Field(line, 3, 1)) > addr
             THEN IF NFields(line, 3) < 4
                  THEN [s EXCEPT !.ret = Raised("IndexError")]
                  ELSE [s EXCEPT !.ret = Found(Field(line, 3, 2),
                                               FieldRStrip(line, 3, 3))]
             ELSE Locals(s.cidx + 1, s.cmax,
                         (s.cidx + 1) + HalfTrunc(s.cmax - (s.cidx + 1)), s.ret)
        ELSE Locals(s.cmin, s.cidx - 1,
                    s.cmin + HalfTrunc((s.cidx - 1) - s.cmin), s.ret)

RECURSIVE BinsearchLoop(_, _, _)
BinsearchLoop(lines, addr, s) ==
    IF s.ret.kind # "unset" THEN s.ret
    ELSE IF ~BinsearchGuard(s) THEN PyNone
    ELSE BinsearchLoop(lines, addr, BinsearchBody(lines, addr, s))

retrieve_file_line_data_binsearch(cache, symbol_entry, addr) ==
    LET lines == cache[symbol_entry.symfile]
    IN  IF Len(lines) = 0 THEN PyNone
        ELSE BinsearchLoop(lines, addr, BinsearchEntry(lines))

----------------------------------------------------------------------------
(* Symbol files on disk, and load_symbols_recursive *)

\* <symbols_dir>/<dir>/<stem>.sym
SymPath(d, m) == [dir |-> d, stem |-> m]

\* module = os.path.splitext(comps[-1])[0]
ModuleOf(symfile) == symfile.stem

SymX == SymPath("x", "m")
SymY == SymPath("y", "m")

\* one step of the walk: load_symbols on a .sym file not visited yet; an
\* exception of load_symbols ends the run
LoadSymbols ==
    /\ pc = "load"
    /\ \E f \in DOMAIN files \ DOMAIN line_symbols_cache :
          LET st == load_symbols(Store(symbols, filemap, line_symbols_cache, ""),
                                 ModuleOf(f), f, files[f])
          IN  /\ symbols' = st.symbols
              /\ filemap' = st.filemap
              /\ line_symbols_cache' = st.line_symbols_cache
              /\ pc' = IF st.err # "" THEN "raised"
                       ELSE IF DOMAIN files = DOMAIN st.line_symbols_cache
                       THEN "ready" ELSE "load"
    /\ UNCHANGED <<files, reladdr, cmin, cmax, cidx, bret, lret,
                   module_memory_map, stack_len, stack_cnt, nums, frame,
                   disk, http, stderr>>

----------------------------------------------------------------------------
(* The two line lookups, run on the same symbol file and address *)

\* a Function Record of SymX: the lookups read its symfile only
EntryX == [start |-> 0, size |-> 0, name |-> "", symfile |-> SymX]

LinearCall ==
    /\ pc = "ready"
    /\ lret' = retrieve_file_line_data_linear(files, EntryX, reladdr)
    /\ pc' = "binsearch"
    /\ UNCHANGED <<files, symbols, filemap, line_symbols_cache, reladdr, cmin,
                   cmax, cidx, bret, module_memory_map, stack_len, stack_cnt,
                   nums, frame, disk, http, stderr>>

\* lines 102-110: the early return on an empty table, else the first bounds
BinsearchEnter ==
    /\ pc = "binsearch"
    /\ LET lines == line_symbols_cache[EntryX.symfile]
       IN  IF Len(lines) = 0
           THEN /\ bret' = PyNone
                /\ pc' = "done"
                /\ UNCHANGED <<cmin, cmax, cidx>>
           ELSE /\ cmin' = BinsearchEntry(lines).cmin
                /\ cmax' = BinsearchEntry(lines).cmax
                /\ cidx' = BinsearchEntry(lines).cidx
                /\ pc' = "while"
                /\ UNCHANGED bret
    /\ UNCHANGED <<files, symbols, filemap, line_symbols_cache, reladdr, lret,
                   module_memory_map, stack_len, stack_cnt, nums, frame,
                   disk, http, stderr>>

\* one iteration of the while loop
BinsearchIter ==
    /\ pc = "while"
    /\ BinsearchGuard(Locals(cmin, cmax, cidx, Unset))
    /\ LET s == BinsearchBody(line_symbols_cache[EntryX.symfile], reladdr,
                              Locals(cmin, cmax, cidx, Unset))
       IN  /\ cmin' = s.cmin
           /\ cmax' = s.cmax
           /\ cidx' = s.cidx
           /\ bret' = IF s.ret.kind = "unset" THEN bret ELSE s.ret
           /\ pc' = IF s.ret.kind = "unset" THEN "while" ELSE "done"
    /\ UNCHANGED <<files, symbols, filemap, line_symbols_cache, reladdr, lret,
                   module_memory_map, stack_len, stack_cnt, nums, frame,
                   disk, http, stderr>>

\* line 131: the loop condition fails
BinsearchExit ==
    /\ pc = "while"
    /\ ~BinsearchGuard(Locals(cmin, cmax, cidx, Unset))
    /\ bret' = PyNone
    /\ pc' = "done"
    /\ UNCHANGED <<files, symbols, filemap, line_symbols_cache, reladdr, cmin,
                   cmax, cidx, lret, module_memory_map, stack_len, stack_cnt,
                   nums, frame, disk, http, stderr>>

NextLine ==
    \/ LoadSymbols
    \/ LinearCall
    \/ BinsearchEnter
    \/ BinsearchIter
    \/ BinsearchExit

\* what the variables of the other parts of the program hold meanwhile
NoFrame ==
    [addr |-> -1, found |-> FALSE, module |-> "", reladdr |-> -1, kind |-> "",
     name |-> "", symfile |-> SymX, lookup |-> Unset, path |-> "", err |-> ""]

IdleStack ==
    /\ module_memory_map = << >>
    /\ stack_len = 0
    /\ stack_cnt = 0
    /\ nums = << >>
    /\ frame = NoFrame

EmptyDisk == [dirs |-> {}, files |-> << >>]

IdleFetch ==
    /\ disk = EmptyDisk
    /\ http = << >>
    /\ stderr = << >>

IdleLookup ==
    /\ reladdr = 0
    /\ cmin = 0
    /\ cmax = 0
    /\ cidx = 0
    /\ bret = Unset
    /\ lret = Unset

EmptyStore ==
    /\ symbols = << >>
    /\ filemap = << >>
    /\ line_symbols_cache = << >>

\* a line-table row "<start> <size> <line> <file id>"
Row(start, size, line, fid) == <<Digit(start), Digit(size), Digit(line), fid>>

Sizes == 0..2
Addrs == 0..(MaxStart + 3)

\* the texts of a symbol file whose n rows are well-formed and ascending by
\* start address; row i carries source line i, so the rows can be told apart
SortedRows(n) ==
    {[i \in 1..n |-> Row(st[i], sz[i], i, "3")] :
        st \in {f \in [1..n -> 0..MaxStart] :
                  \A i \in 1..n : \A j \in 1..n : i < j => f[i] <= f[j]},
        sz \in [1..n -> Sizes]}

\* the records a real symbol file has before its rows
FuncLine == <<"FUNC", "0", "f", "0", "foo(int,", "int)">>
FileLine == <<"FILE", "3", "/src/a", "b.cpp">>
Headers == {<< >>, <<FileLine, FuncLine>>}

InitSorted ==
    /\ \E n \in 0..MaxLines : \E rows \in SortedRows(n) : \E h \in Headers :
          files = [f \in {SymX} |-> h \o rows]
    /\ reladdr \in Addrs
    /\ cmin = 0 /\ cmax = 0 /\ cidx = 0
    /\ bret = Unset /\ lret = Unset
    /\ pc = "load"
    /\ EmptyStore /\ IdleStack /\ IdleFetch

SpecSorted == InitSorted /\ [][NextLine]_vars

----------------------------------------------------------------------------
(* Line tables and what the lookups find in them *)

\* the line table of SymX, once loaded
LineTable ==
    IF SymX \in DOMAIN line_symbols_cache THEN line_symbols_cache[SymX]
    ELSE << >>

\* "<start_hex> <size_hex> <line> <file_id>"
WellFormedRow(r) ==
    /\ Len(r) = 4
    /\ IsHex(r[1]) /\ IsHex(r[2])
    /\ r[3] # "" /\ r[4] # ""

RowStart(r) == HexVal(r[1])
RowEnd(r) == HexVal(r[1]) + HexVal(r[2])
Covers(r, a) == RowStart(r) <= a /\ a < RowEnd(r)

AllWellFormed == \A i \in 1..Len(LineTable) : WellFormedRow(LineTable[i])

SortedByStart ==
    \A i \in 1..Len(LineTable) : \A j \in 1..Len(LineTable) :
        i < j => RowStart(LineTable[i]) <= RowStart(LineTable[j])

\* the same with no two rows starting at the same address
StrictlyAscending ==
    \A i \in 1..Len(LineTable) : \A j \in 1..Len(LineTable) :
        i < j => RowStart(LineTable[i]) < RowStart(LineTable[j])

\* no row begins before the row above it ends
NonOverlapping ==
    \A i \in 1..(Len(LineTable) - 1) :
        RowEnd(LineTable[i]) <= RowStart(LineTable[i + 1])

SomeRowCovers == \E i \in 1..Len(LineTable) : Covers(LineTable[i], reladdr)

BothAgree ==
    /\ bret = lret
    /\ bret.kind \in {"ok", "None"}
    /\ SomeRowCovers <=> bret.kind = "ok"

\* C1 as stated: on every line table of well-formed rows sorted ascending by
\* start address, binary search and linear scan return the same
\* (line, file_id) for every relative address, (None, None) when no row
\* covers the address.  Ascending is read strictly here: the statement fails
\* even so.
C1_SortedAgree ==
    (pc = "done" /\ AllWellFormed /\ StrictlyAscending) => BothAgree

\* C1 amended: the same, on line tables whose rows are moreover
\* non-overlapping (each row ends at or before the start of the next).
C1_SortedDisjointAgree ==
    (pc = "done" /\ AllWellFormed /\ SortedByStart /\ NonOverlapping)
        => BothAgree

\* a three-row table with a gap, where binary search went left of the middle
\* row and returned the first row
C1_Witness ==
    /\ pc = "done"
    /\ AllWellFormed /\ SortedByStart /\ NonOverlapping
    /\ Len(LineTable) = 3
    /\ RowEnd(LineTable[1]) < RowStart(LineTable[2])
    /\ bret = Found("1", "3")
    /\ lret = bret
    /\ reladdr = RowEnd(LineTable[1]) - 1

----------------------------------------------------------------------------
(* Symbol files with malformed records *)

\* the lines a symbol file may hold at line i: well-formed rows, rows with
\* too few fields, a row ending in a space, rows that are no numbers, the
\* empty line, and FUNC and FILE records with and without all their fields
LineShapes(i) ==
    {Row(st, sz, i, "3") : st \in {0, 2}, sz \in {1, 2}}
    \cup {<<"0">>, <<"0", "2">>, <<"0", "2", Digit(i)>>,
          <<"0", "2", Digit(i), "">>, <<"0", "zz", Digit(i), "3">>,
          <<"">>, <<"INLINE_ORIGIN", "0", "foo">>,
          <<"FUNC", "0", "4", "0", "foo">>, <<"FUNC", "0", "4">>,
          <<"FUNC", "zz", "4", "0", "foo">>,
          <<"FILE", "3", "/src/a.cpp">>, <<"FILE", "3">>}

InitLine ==
    /\ \E n \in 0..MaxLines :
          \E text \in {t \in [1..n -> UNION {LineShapes(i) : i \in 1..n}] :
                          \A i \in 1..n : t[i] \in LineShapes(i)} :
             files = [f \in {SymX} |-> text]
    /\ reladdr \in 0..3
    /\ cmin = 0 /\ cmax = 0 /\ cidx = 0
    /\ bret = Unset /\ lret = Unset
    /\ pc = "load"
    /\ EmptyStore /\ IdleStack /\ IdleFetch

SpecLine == InitLine /\ [][NextLine]_vars

\* C4: a malformed record of a symbol file is skipped: load_symbols does not
\* end in an error, and neither does a later line lookup, by linear scan or
\* by binary search; each returns a (line, file_id) or (None, None).
C4_MalformedSkipped ==
    /\ pc # "raised"
    /\ lret.kind \in {"unset", "ok", "None"}
    /\ bret.kind \in {"unset", "ok", "None"}

\* C9: binary search terminates on every line table: each iteration returns
\* a row covering the address, or strictly shrinks [cmin, cmax], or moves
\* cidx one up with the bounds unchanged; it returns (None, None) once the
\* loop condition fails; and every index it reads is one of the table.
C9_BinsearchProgress ==
    /\ [](pc = "while" /\ BinsearchGuard(Locals(cmin, cmax, cidx, Unset))
            => cidx \in 0..(Len(LineTable) - 1))
    /\ [][pc = "while" =>
            \/ /\ pc' = "done"
               /\ BinsearchGuard(Locals(cmin, cmax, cidx, Unset))
               /\ Len(LineTable[cidx + 1]) = 4
               /\ Covers(LineTable[cidx + 1], reladdr)
               /\ bret' = Found(LineTable[cidx + 1][3], LineTable[cidx + 1][4])
            \/ /\ pc' = "done"
               /\ ~BinsearchGuard(Locals(cmin, cmax, cidx, Unset))
               /\ bret' = PyNone
            \/ /\ pc' = "while"
               /\ cmax' - cmin' < cmax - cmin
            \/ /\ pc' = "while"
               /\ cidx' = cidx + 1 /\ cmin' = cmin /\ cmax' = cmax]_vars

\* a row the first int() rejects: the ValueError the lookups catch
Unparsable(r) == ~IsHex(r[1])

\* reladdr lies in the range of a Function Record loaded from SymX
InLoadedFunction ==
    /\ ModuleOf(SymX) \in DOMAIN symbols
    /\ \E i \in 1..Len(symbols[ModuleOf(SymX)]) :
          LET sym == symbols[ModuleOf(SymX)][i]
          IN  sym.start <= reladdr /\ reladdr < sym.start + sym.size

\* the rows of the table that parse, in table order
RECURSIVE Parsable(_)
Parsable(rows) ==
    IF rows = << >> THEN << >>
    ELSE IF Unparsable(Head(rows)) THEN Parsable(Tail(rows))
    ELSE <<Head(rows)>> \o Parsable(Tail(rows))

\* every row is well-formed or unparsable, and the well-formed ones are in
\* ascending, non-overlapping order
ParsableRowsSorted ==
    LET rows == Parsable(LineTable)
    IN  /\ \A i \in 1..Len(rows) : WellFormedRow(rows[i])
        /\ \A i \in 1..(Len(rows) - 1) :
              /\ RowStart(rows[i]) <= RowStart(rows[i + 1])
              /\ RowEnd(rows[i]) <= RowStart(rows[i + 1])

\* C10: rows that fail to parse do not change the result: when the parsable
\* rows are in address order, binary search returns what linear scan returns
\* for every relative address inside a loaded function's range.
C10_UnparsableRowsAgree ==
    (pc = "done" /\ ParsableRowsSorted /\ InLoadedFunction) => bret = lret

----------------------------------------------------------------------------
(* print_stack *)

RECURSIVE ModuleScan(_, _, _)
\* lines 310-318: the first entry of the map, in dict order, whose range
\* holds addr; found is FALSE when module stays None
ModuleScan(map, i, addr) ==
    IF i > Len(map) THEN [found |-> FALSE, module |-> "", reladdr |-> -1]
    ELSE IF addr >= map[i].base /\ addr < map[i].end
    THEN [found |-> TRUE, module |-> map[i].name, reladdr |-> addr - map[i].base]
    ELSE ModuleScan(map, i + 1, addr)

\* "not module": None and the empty string are both false in the code
NotModule(r) == ~r.found \/ r.module = ""

\* a scan that keeps the last matching record instead of the first
SymbolScanLast(syms, i, rel) ==
    IF \E j \in 1..Len(syms) :
          syms[j].start <= rel /\ (syms[j].start + syms[j].size) > rel
    THEN CHOOSE j \in 1..Len(syms) :
            /\ syms[j].start <= rel /\ (syms[j].start + syms[j].size) > rel
            /\ \A k \in (j + 1)..Len(syms) :
                  ~(syms[k].start <= rel /\ (syms[k].start + syms[k].size) > rel)
    ELSE 0

RECURSIVE SymbolScan(_, _, _)
\* lines 330-335: the index of the first record holding rel, 0 for none
SymbolScan(syms, i, rel) ==
    IF i > Len(syms) THEN 0
    ELSE IF syms[i].start <= rel /\ (syms[i].start + syms[i].size) > rel
    THEN i
    ELSE SymbolScan(syms, i + 1, rel)

\* lines 339-343, for the matched record sym: the line lookup, then the
\* "in file" line when "filenum and symfile in filemap"
PrintFileLine(fr, sym) ==
    LET r == retrieve_file_line_data_binsearch(line_symbols_cache, sym,
                                               fr.reladdr)
    IN  IF r.kind = "IndexError"
        THEN [fr EXCEPT !.lookup = r, !.err = "IndexError"]
        ELSE IF r.kind = "ok" /\ r.file_id # ""
                /\ sym.symfile \in DOMAIN filemap
        THEN IF r.file_id \in DOMAIN filemap[sym.symfile]
             THEN [fr EXCEPT !.lookup = r, !.kind = "file",
                             !.path = filemap[sym.symfile][r.file_id]]
             ELSE [fr EXCEPT !.lookup = r, !.err = "KeyError"]
        ELSE [fr EXCEPT !.lookup = r]

\* the body of "for addr in phc_stack", up to the exception if one is raised
FrameOf(addr) ==
    LET m == ModuleScan(module_memory_map, 1, addr)
        fr == [NoFrame EXCEPT !.addr = addr, !.found = m.found,
                              !.module = m.module, !.reladdr = m.reladdr]
    IN  IF NotModule(m) THEN [fr EXCEPT !.kind = "unknown module"]
        ELSE IF m.module \notin DOMAIN symbols
        THEN [fr EXCEPT !.kind = "missing symbols"]
        ELSE LET i == SymbolScan(symbols[m.module], 1, m.reladdr)
             IN  IF i = 0 THEN [fr EXCEPT !.kind = "unresolved symbol"]
                 ELSE PrintFileLine([fr EXCEPT !.kind = "function",
                                    !.name = symbols[m.module][i].name,
                                    !.symfile = symbols[m.module][i].symfile],
                                symbols[m.module][i])

MaxStack == 2
StackAddrs == 0..4

\* one pass of the loop over phc_stack: every path prints "#<stack_cnt> ..."
\* first; an exception leaves print_stack before stack_cnt += 1
PrintFrame ==
    /\ pc = "ready"
    /\ stack_cnt < stack_len
    /\ \E addr \in StackAddrs :
          /\ frame' = FrameOf(addr)
          /\ nums' = Append(nums, stack_cnt)
          /\ IF frame'.err # ""
             THEN pc' = "raised" /\ stack_cnt' = stack_cnt
             ELSE pc' = pc /\ stack_cnt' = stack_cnt + 1
    /\ UNCHANGED <<files, symbols, filemap, line_symbols_cache, reladdr, cmin,
                   cmax, cidx, bret, lret, module_memory_map, stack_len,
                   disk, http, stderr>>

\* the loop is over: print_stack returns
PrintStackReturn ==
    /\ pc = "ready"
    /\ stack_cnt = stack_len
    /\ pc' = "done"
    /\ UNCHANGED <<files, symbols, filemap, line_symbols_cache, reladdr, cmin,
                   cmax, cidx, bret, lret, module_memory_map, stack_len,
                   stack_cnt, nums, frame, disk, http, stderr>>

NextStack ==
    \/ LoadSymbols
    \/ PrintFrame
    \/ PrintStackReturn

MaxFileLines == 2

\* the records of a symbol file in directory d, at line i: two overlapping
\* functions, two FILE records and a row; names and paths tell the file and
\* the line they come from
StackShapes(d, i) ==
    {<<"FUNC", "1", "2", "0", "f" \o d \o Digit(i)>>,
     <<"FUNC", "2", "2", "0", "g" \o d \o Digit(i)>>,
     <<"FILE", "3", "/src/" \o d \o ".cpp">>,
     <<"FILE", "4", "/src/" \o d \o ".h">>,
     Row(1, 3, i, "3")}

Texts(d, n) ==
    {t \in [1..n -> UNION {StackShapes(d, i) : i \in 1..n}] :
        \A i \in 1..n : t[i] \in StackShapes(d, i)}

\* the second symbol file of module m: empty, or a function with its row
\* and the FILE record of the same id as in the first file
TextsY ==
    {<< >>,
     <<<<"FILE", "3", "/src/y.cpp">>, <<"FUNC", "1", "2", "0", "fy2">>,
       Row(1, 2, 9, "3")>>,
     <<<<"FILE", "4", "/src/y.h">>, <<"FUNC", "1", "2", "0", "fy2">>,
       Row(1, 2, 9, "3")>>}

Entry(n, b, e) == [name |-> n, base |-> b, end |-> e]
Entries == {Entry("m", 1, 5), Entry("n", 0, 3), Entry("", 0, 2)}

\* the maps over these entries: a dict holds each key once, in any order
MemoryMaps ==
    UNION {{mm \in [1..n -> Entries] :
               \A i \in 1..n : \A j \in 1..n : i # j => mm[i].name # mm[j].name} :
           n \in 0..Cardinality(Entries)}

InitStack ==
    /\ \E n \in 0..MaxFileLines : \E tx \in Texts("x", n) : \E ty \in TextsY :
          files = [f \in {SymX, SymY} |-> IF f = SymX THEN tx ELSE ty]
    /\ module_memory_map \in MemoryMaps
    /\ stack_len \in 0..MaxStack
    /\ stack_cnt = 0
    /\ nums = << >>
    /\ frame = NoFrame
    /\ pc = "load"
    /\ EmptyStore /\ IdleLookup /\ IdleFetch

SpecStack == InitStack /\ [][NextStack]_vars

----------------------------------------------------------------------------
(* What a symbol file says, read off its text *)

IsFuncLine(l) == Len(l) >= 5 /\ l[1] = "FUNC"
IsFileLine(l) == Len(l) >= 3 /\ l[1] = "FILE"
IsRowLine(l) == Len(l) = 4 /\ IsHex(l[1]) /\ IsHex(l[2])

RECURSIVE FuncRecordsOf(_, _)
\* the Function Records of the FUNC lines of text, in file order
FuncRecordsOf(f, text) ==
    IF text = << >> THEN << >>
    ELSE IF IsFuncLine(Head(text))
    THEN <<[start |-> HexVal(Head(text)[2]), size |-> HexVal(Head(text)[3]),
            name |-> Join(SubSeq(Head(text), 5, Len(Head(text)))),
            symfile |-> f]>> \o FuncRecordsOf(f, Tail(text))
    ELSE FuncRecordsOf(f, Tail(text))

\* the File Table of text has an entry for id
HasFileEntry(text, id) ==
    \E i \in 1..Len(text) : IsFileLine(text[i]) /\ text[i][2] = id

\* the path the last FILE line of text gives to id
PathOf(text, id) ==
    LET i == CHOOSE k \in 1..Len(text) :
                /\ IsFileLine(text[k]) /\ text[k][2] = id
                /\ \A j \in (k + 1)..Len(text) :
                      ~(IsFileLine(text[j]) /\ text[j][2] = id)
    IN  Join(SubSeq(text[i], 3, Len(text[i])))

Holds(sym, rel) == sym.start <= rel /\ rel < sym.start + sym.size

\* the indices of the records of the frame's module that hold its address
Matching ==
    {j \in 1..Len(symbols[frame.module]) :
        Holds(symbols[frame.module][j], frame.reladdr)}

Min(S) == CHOOSE x \in S : \A y \in S : x <= y

\* the frame got as far as the function lookup
LookedUp ==
    /\ frame.addr # -1
    /\ frame.found /\ frame.module # ""
    /\ frame.module \in DOMAIN symbols

Resolved == frame.kind \in {"function", "file"}

----------------------------------------------------------------------------
(* Claims on print_stack *)

\* C2: a stack of N addresses gives exactly N frame lines, numbered
\* 0, 1, ..., N-1 in input order, whatever the outcome of each frame.
C2_FrameNumbering ==
    /\ nums = [i \in 1..Len(nums) |-> i - 1]
    /\ pc \in {"done", "raised"} => Len(nums) = stack_len

\* C3: when the function is resolved and the line lookup returns a file id,
\* "in file <path> line <line>" is printed only if the File Table of the
\* owning symbol file has that id; if not, nothing more is printed, no error
\* is raised and the next frame is processed.
C3_MissingFileEntrySkipped ==
    (Resolved /\ frame.lookup.kind = "ok" /\ frame.lookup.file_id # "")
        => IF HasFileEntry(files[frame.symfile], frame.lookup.file_id)
           THEN /\ frame.kind = "file"
                /\ frame.path = PathOf(files[frame.symfile],
                                       frame.lookup.file_id)
           ELSE /\ frame.kind = "function"
                /\ frame.err = ""
                /\ pc # "raised"
                /\ stack_cnt = Len(nums)

\* C5: function lookup returns the first Function Record, in the order
\* load_symbols accumulated them (file order within a symbol file, one file
\* after the other), whose range holds the address, overlapping or unsorted
\* ranges included; with no such record the frame is an unresolved symbol.
C5_FirstMatchWins ==
    /\ \A f \in DOMAIN line_symbols_cache :
          LET syms == symbols[ModuleOf(f)]
          IN  /\ SelectSeq(syms, LAMBDA r : r.symfile = f)
                    = FuncRecordsOf(f, files[f])
              /\ \A i \in 1..Len(syms) : \A j \in 1..Len(syms) :
                    \A k \in 1..Len(syms) :
                        (i < j /\ j < k /\ syms[i].symfile = f
                            /\ syms[k].symfile = f) => syms[j].symfile = f
    /\ LookedUp =>
          IF Matching = {} THEN frame.kind = "unresolved symbol"
          ELSE /\ Resolved
               /\ frame.name = symbols[frame.module][Min(Matching)].name
               /\ frame.symfile = symbols[frame.module][Min(Matching)].symfile

\* two records with different ranges hold the address, and the frame got
\* the name of the earlier one, which starts after the later one
C5_Witness ==
    /\ LookedUp /\ Resolved
    /\ \E i \in Matching : \E j \in Matching :
          /\ i < j
          /\ symbols[frame.module][i].start > symbols[frame.module][j].start
          /\ frame.name = symbols[frame.module][i].name
          /\ symbols[frame.module][i].name # symbols[frame.module][j].name

\* the entries of the memory map whose range holds the frame's address
Owners ==
    {i \in 1..Len(module_memory_map) :
        /\ module_memory_map[i].base <= frame.addr
        /\ frame.addr < module_memory_map[i].end}

\* C6: address resolution gives the first module in map order with
\* base <= address < end, and address - base; the frame is "frame in unknown
\* module" exactly when no range holds the address, and the addresses after
\* it are still processed.
C6_FirstModule ==
    frame.addr # -1 =>
        IF Owners = {}
        THEN /\ frame.kind = "unknown module"
             /\ pc # "raised"
             /\ stack_cnt = Len(nums)
        ELSE /\ frame.kind # "unknown module"
             /\ frame.module = module_memory_map[Min(Owners)].name
             /\ frame.reladdr =
                   frame.addr - module_memory_map[Min(Owners)].base

\* C7: the row and the path printed for a frame come from the line table
\* and the File Table of the symbol file of the matched Function Record,
\* also when another symbol file of the module gives the same file id
\* another path, whatever the load order.
C7_FileIdScoped ==
    frame.kind = "file" =>
        LET text == files[frame.symfile]
        IN  /\ \E i \in 1..Len(text) :
                  /\ IsFuncLine(text[i])
                  /\ Join(SubSeq(text[i], 5, Len(text[i]))) = frame.name
            /\ \E i \in 1..Len(text) :
                  /\ IsRowLine(text[i])
                  /\ Covers(text[i], frame.reladdr)
                  /\ frame.lookup = Found(text[i][3], text[i][4])
            /\ HasFileEntry(text, frame.lookup.file_id)
            /\ frame.path = PathOf(text, frame.lookup.file_id)

\* both symbol files of the module give file id 3 a path, the paths differ,
\* and a frame printed its file and line
C7_Witness ==
    /\ frame.kind = "file"
    /\ ModuleOf(SymX) = ModuleOf(SymY)
    /\ HasFileEntry(files[SymX], frame.lookup.file_id)
    /\ HasFileEntry(files[SymY], frame.lookup.file_id)
    /\ PathOf(files[SymX], frame.lookup.file_id)
          # PathOf(files[SymY], frame.lookup.file_id)

----------------------------------------------------------------------------
(* fetch_remote_symbols *)

\* a URL is the list url.split("/") gives
UrlComp(url, k) == url[Len(url) + 1 + k]

\* os.path.join(symbols_dir, url_comps[-2]), relative to symbols_dir
DestDir(url) == UrlComp(url, -2)

\* os.path.join(dest_dir, url_comps[-1]), relative to symbols_dir
DestFile(url) == <<UrlComp(url, -2), UrlComp(url, -1)>>

\* an existence test that looks under the name of the whole URL
ExistsByUrl(d, url) == url \in DOMAIN d.files

\* os.path.exists(dest_file), after dest_dir was made: joining "" gives the
\* directory itself
Exists(d, url) ==
    IF UrlComp(url, -1) = "" THEN DestDir(url) \in d.dirs
    ELSE DestFile(url) \in DOMAIN d.files

MaxCalls == 3

Servers == {<<"https:", "", "s1">>, <<"https:", "", "s2", "v1">>}
Urls ==
    {p \o <<d, f>> : p \in Servers, d \in {"A1", "B2"}, f \in {"m.sym", "n.sym"}}
    \cup {<<"https:", "", "s1", "A1", "">>}
Contents == {"MODULE m", "404"}

\* one call; response.text is whatever the server sends at that time
FetchRemoteSymbols ==
    /\ pc = "fetch"
    /\ Len(stderr) < MaxCalls
    /\ \E url \in Urls : \E text \in Contents :
          LET made == [disk EXCEPT !.dirs = @ \cup {DestDir(url)}]
          IN  IF Exists(made, url)
              THEN /\ disk' = made
                   /\ stderr' = Append(stderr, <<url, "cached!">>)
                   /\ http' = http
              ELSE /\ http' = Append(http, url)
                   /\ stderr' = Append(stderr, <<url, "done!">>)
                   /\ disk' = [made EXCEPT !.files = Put(@, DestFile(url), text)]
    /\ UNCHANGED <<files, symbols, filemap, line_symbols_cache, pc, reladdr,
                   cmin, cmax, cidx, bret, lret, module_memory_map, stack_len,
                   stack_cnt, nums, frame>>

NextFetch == FetchRemoteSymbols

InitFetch ==
    /\ pc = "fetch"
    /\ files = << >>
    /\ disk = EmptyDisk
    /\ http = << >>
    /\ stderr = << >>
    /\ EmptyStore /\ IdleLookup /\ IdleStack

SpecFetch == InitFetch /\ [][NextFetch]_vars

\* the last two path segments of a URL
LastTwo(url) == <<url[Len(url) - 1], url[Len(url)]>>

====
